---- MODULE Spec2Model ----
(***************************************************************************)
(* Model of src/app/main.py: main's loop over the .ovpn configurations,    *)
(* the start_openvpn context manager (credential checks, spawn, polling    *)
(* loop, teardown) and perform_web_action, as one sequential program whose *)
(* position is pc.  The tunnel processes, the clock, the file system and   *)
(* the browser are the environment.                                        *)
(*                                                                         *)
(* Time is counted in poll intervals: one unit is the time.sleep(0.1) of   *)
(* line 146.  Every step but the sleep and a blocked readline is taken to  *)
(* be instantaneous.                                                       *)
(***************************************************************************)
EXTENDS Integers, Sequences, FiniteSets, TLC

\* ---------------------------------------------------------------- bounds
\* Number of .ovpn files find_ovpn_files returns (a non-empty list).
NumConfigs == 2
\* The connect deadline, in poll intervals (CONNECT_TIMEOUT is read from the
\* environment, line 37; its unit here is the 0.1 s sleep of line 146).
CONNECT_TIMEOUT == 2
\* Unread lines the pipe of the tunnel process holds at most.
MaxLines == 2
\* The clock stops being observed this far after the start of a poll loop.
MaxElapsed == CONNECT_TIMEOUT + 2

Configs == 1..NumConfigs

\* ------------------------------------------------------- output lines
\* A line of the process's output is the set of the substrings the code
\* looks for that it contains ("Enter Auth Username" contains "Username"
\* but not the upper-case "AUTH").
InitLine == {"Initialization Sequence Completed"}
MgmtLine == {"CONNECTED,SUCCESS"}
PromptLine == {"Enter Auth Username", "Username"}
AuthLine == {"AUTH", "Username"}
MiscLine == {}
Lines == {InitLine, MgmtLine, PromptLine, AuthLine, MiscLine}

Contains(line, text) == text \in line

\* line 135, left of the "and not": A or (B and C)
IsAuthPrompt(line) ==
    Contains(line, "Enter Auth Username")
        \/ (Contains(line, "AUTH") /\ Contains(line, "Username"))

\* the lines with which the tunnel client reports that the tunnel is up
EmitsSignature(line) == line \in {InitLine, MgmtLine}

IsSuccessLineAny(line) == TRUE

\* line 140
IsSuccessLine(line) ==
    Contains(line, "Initialization Sequence Completed")
        \/ Contains(line, "CONNECTED,SUCCESS")

\* ---------------------------------------------------------------- state
VARIABLES
    OPENVPN_AUTH_FILE,  \* "unset", "missing" (set, no such file), "present"
    OPENVPN_USER,       \* truthiness of the environment value
    OPENVPN_PASS,
    binFound,           \* what lines 74-75 found of the openvpn binary
    pc,                 \* position of the single thread of control
    idx,                \* index of cfg in ovpn_files (for cfg in ovpn_files)
    attempted,          \* configurations whose iteration has started, in order
    outcomes,           \* configurations whose iteration has ended, in order
    proc,               \* the Popen of each configuration's start_openvpn
    pipe,               \* unread lines of the current process's stdout
    elapsed,            \* time.time() - start, in poll intervals
    connected,          \* local of start_openvpn, line 120
    cred_temp_path,     \* local of start_openvpn: 0 is None, else the file
    disk,               \* transient credential files that exist on disk
    exc,                \* the exception propagating out of start_openvpn
    settled,            \* the time.sleep(2) of line 254 has returned
    tornDown,           \* the finally block of line 148 has been entered
    browser,            \* "none", "open", "closed", "stopped"
    webExc,             \* exception propagating in perform_web_action
    lastCall,           \* the last browser call and how it ended
    actionResult        \* "none", "ok", "failed": this iteration's web action

vars == <<OPENVPN_AUTH_FILE, OPENVPN_USER, OPENVPN_PASS, binFound, pc, idx, attempted,
          outcomes, proc, pipe, elapsed, connected, cred_temp_path, disk, exc,
          settled, tornDown, browser, webExc, lastCall, actionResult>>

cfgVars == <<OPENVPN_AUTH_FILE, OPENVPN_USER, OPENVPN_PASS>>
envVars == <<cfgVars, binFound>>
webVars == <<browser, webExc, lastCall, actionResult>>

NoExc == [type |-> "none", code |-> 0]
Raised(t) == [type |-> t, code |-> 0]
NoCall == [step |-> "none", out |-> "none"]
NoProc == [st |-> "none", code |-> 0, sig |-> FALSE]

PollStates == {"poll", "readline", "timecheck", "sleep"}
WebStates == {"launch", "goto", "consent_wait", "consent_click", "section_wait",
              "elements_wait", "votes_before", "click", "votes_after",
              "web_finally", "pw_exit"}
TeardownStates == {"terminate", "wait", "kill", "td_except", "rmcred",
                   "rm_except"}

\* own exit statuses of a tunnel process
ExitCodes == {0, 1}

Running(i) == proc[i].st = "running"
\* the tunnel of configuration i is up
TunnelUp(i) == Running(i) /\ proc[i].sig

Init ==
    /\ OPENVPN_AUTH_FILE \in {"unset", "missing", "present"}
    /\ OPENVPN_USER \in BOOLEAN
    /\ OPENVPN_PASS \in BOOLEAN
    /\ binFound = "unchecked"
    /\ pc = "loop"
    /\ idx = 1
    /\ attempted = <<>>
    /\ outcomes = <<>>
    /\ proc = [i \in Configs |-> NoProc]
    /\ pipe = <<>>
    /\ elapsed = 0
    /\ connected = FALSE
    /\ cred_temp_path = 0
    /\ disk = {}
    /\ exc = NoExc
    /\ settled = FALSE
    /\ tornDown = FALSE
    /\ browser = "none"
    /\ webExc = "none"
    /\ lastCall = NoCall
    /\ actionResult = "none"

\* ------------------------------------------------------------ main loop
\* line 249: the for statement takes the next configuration
LoopNext ==
    /\ pc = "loop"
    /\ idx <= NumConfigs
    /\ attempted' = Append(attempted, idx)
    /\ pc' = "check_creds"
    /\ pipe' = <<>>
    /\ elapsed' = 0
    /\ connected' = FALSE
    /\ cred_temp_path' = 0
    /\ exc' = NoExc
    /\ settled' = FALSE
    /\ tornDown' = FALSE
    /\ browser' = "none"
    /\ webExc' = "none"
    /\ lastCall' = NoCall
    /\ actionResult' = "none"
    /\ binFound' = "unchecked"
    /\ UNCHANGED <<cfgVars, idx, outcomes, proc, disk>>

\* line 264: the list is exhausted, the completion line is logged
LoopDone ==
    /\ pc = "loop"
    /\ idx > NumConfigs
    /\ pc' = "done"
    /\ UNCHANGED <<envVars, idx, attempted, outcomes, proc, pipe, elapsed,
                   connected, cred_temp_path, disk, exc, settled, tornDown,
                   webVars>>

\* What is left of a Popen object once its with statement is over: the
\* operating system's process, running (with its tunnel up or not) or gone;
\* the return code went with the object.
Forgotten(p) ==
    IF p.st = "exited" THEN [st |-> "exited", code |-> 0, sig |-> FALSE] ELSE p

\* The iteration of cfg ends: its outcome has been logged.
EndIteration ==
    /\ outcomes' = Append(outcomes, idx)
    /\ idx' = idx + 1
    /\ pc' = "loop"
    /\ proc' = [proc EXCEPT ![idx] = Forgotten(@)]

HandlerAbort ==
    /\ pc = "handler"
    /\ outcomes' = Append(outcomes, idx)
    /\ pc' = "done"
    /\ proc' = [proc EXCEPT ![idx] = Forgotten(@)]
    /\ UNCHANGED <<envVars, idx, attempted, pipe, elapsed, connected,
                   cred_temp_path, disk, exc, settled, tornDown, webVars>>

\* lines 259-262: except TimeoutError / except Exception, both log and go on
Handler ==
    /\ pc = "handler"
    /\ EndIteration
    /\ UNCHANGED <<envVars, attempted, pipe, elapsed, connected,
                   cred_temp_path, disk, exc, settled, tornDown, webVars>>

\* ------------------------------------------- start_openvpn: before spawn
HasCredSourceEither == OPENVPN_AUTH_FILE # "unset" \/ OPENVPN_USER \/ OPENVPN_PASS

\* line 67: OPENVPN_AUTH_FILE or (OPENVPN_USER and OPENVPN_PASS)
HasCredSource ==
    OPENVPN_AUTH_FILE # "unset" \/ (OPENVPN_USER /\ OPENVPN_PASS)

\* An exception raised before the try of line 122 reaches main directly.
RaiseBeforeTry(t) ==
    /\ exc' = Raised(t)
    /\ pc' = "handler"

\* lines 66-71
CheckCreds ==
    /\ pc = "check_creds"
    /\ IF HasCredSource
         THEN pc' = "check_bin" /\ exc' = exc
         ELSE RaiseBeforeTry("NoCredentials")
    /\ UNCHANGED <<envVars, idx, attempted, outcomes, proc, pipe, elapsed,
                   connected, cred_temp_path, disk, settled, tornDown, webVars>>

BinaryAssumed(found) == TRUE

\* lines 74-76: os.path.exists(OPENVPN_BIN), or else shutil.which finds it
BinaryResolved(found) == found \in {"at_path", "by_which"}

\* lines 73-85: found is what the file system answers: the binary is at
\* OPENVPN_BIN ("at_path"), or only on the search path ("by_which"), or
\* neither ("nowhere")
CheckBin ==
    /\ pc = "check_bin"
    /\ \E found \in {"at_path", "by_which", "nowhere"} :
         /\ binFound' = found
         /\ IF BinaryResolved(found)
              THEN pc' = "prep_creds" /\ exc' = exc
              ELSE RaiseBeforeTry("BinaryNotFound")
    /\ UNCHANGED <<cfgVars, idx, attempted, outcomes, proc, pipe, elapsed,
                   connected, cred_temp_path, disk, settled, tornDown, webVars>>

\* lines 89-113: the auth file is used when set; else a temporary file is
\* written from OPENVPN_USER/OPENVPN_PASS.  "failed": NamedTemporaryFile
\* raised, or write/close/chmod raised and the except of line 105 removed
\* the file again (the os.remove of line 112 is taken to succeed).  The
\* resolved binary has gone into cmd (line 89) and is not looked at again.
PrepCreds ==
    /\ pc = "prep_creds"
    /\ IF OPENVPN_AUTH_FILE # "unset"
         THEN /\ IF OPENVPN_AUTH_FILE = "missing"
                   THEN RaiseBeforeTry("AuthFileMissing")
                   ELSE pc' = "spawn" /\ exc' = exc
              /\ UNCHANGED <<cred_temp_path, disk>>
         ELSE IF OPENVPN_USER /\ OPENVPN_PASS
           THEN \E r \in {"written", "failed"} :
                  IF r = "written"
                    THEN /\ cred_temp_path' = idx
                         /\ disk' = disk \cup {idx}
                         /\ pc' = "spawn" /\ exc' = exc
                    ELSE /\ RaiseBeforeTry("CredFileError")
                         /\ UNCHANGED <<cred_temp_path, disk>>
           ELSE /\ pc' = "spawn" /\ exc' = exc
                /\ UNCHANGED <<cred_temp_path, disk>>
    /\ binFound' = IF binFound = "nowhere" THEN binFound ELSE "unchecked"
    /\ UNCHANGED <<cfgVars, idx, attempted, outcomes, proc, pipe, elapsed,
                   connected, settled, tornDown, webVars>>

\* lines 115-121: subprocess.Popen(["sudo", ...]) either starts the process
\* or raises (OSError: no sudo, fork failure); connected = False; start = now
Spawn ==
    /\ pc = "spawn"
    /\ \E started \in BOOLEAN :
         IF started
           THEN /\ proc' = [proc EXCEPT ![idx] =
                              [st |-> "running", code |-> 0, sig |-> FALSE]]
                /\ pc' = "poll" /\ exc' = exc
           ELSE /\ RaiseBeforeTry("SpawnError")
                /\ proc' = proc
    /\ elapsed' = 0
    /\ connected' = FALSE
    /\ pipe' = <<>>
    /\ UNCHANGED <<envVars, idx, attempted, outcomes, cred_temp_path, disk,
                   settled, tornDown, webVars>>

\* ------------------------------------------ start_openvpn: polling loop
\* An exception raised inside the try of line 122 enters the finally.
RaiseInTry(e) ==
    /\ exc' = e
    /\ pc' = "terminate"
    /\ tornDown' = TRUE
    /\ pipe' = <<>>

PollDrainFirst ==
    /\ pc = "poll"
    /\ IF proc[idx].st = "exited" /\ pipe = <<>>
         THEN RaiseInTry([type |-> "ProcessExited", code |-> proc[idx].code])
         ELSE /\ pc' = "readline"
              /\ UNCHANGED <<exc, tornDown, pipe>>
    /\ UNCHANGED <<envVars, idx, attempted, outcomes, proc, elapsed, connected,
                   cred_temp_path, disk, settled, webVars>>

\* lines 125-130: proc.poll(); both messages are a RuntimeError, the first
\* names the return code
Poll ==
    /\ pc = "poll"
    /\ IF proc[idx].st = "exited"
         THEN RaiseInTry([type |-> "ProcessExited", code |-> proc[idx].code])
         ELSE /\ pc' = "readline"
              /\ UNCHANGED <<exc, tornDown, pipe>>
    /\ UNCHANGED <<envVars, idx, attempted, outcomes, proc, elapsed, connected,
                   cred_temp_path, disk, settled, webVars>>

\* line 135, right of the "and not"
CredFileSupplied == OPENVPN_AUTH_FILE # "unset" \/ cred_temp_path # 0

\* lines 131-143: proc.stdout.readline() blocks until a line is there or
\* the stream is at end of file (the process has exited), then returns the
\* line, or '' at end of file
Readline ==
    /\ pc = "readline"
    /\ pipe # <<>> \/ proc[idx].st = "exited"
    /\ IF pipe = <<>>
         THEN /\ pc' = "timecheck"
              /\ UNCHANGED <<pipe, exc, tornDown, connected>>
         ELSE LET line == Head(pipe) IN
              IF IsAuthPrompt(line) /\ ~CredFileSupplied
                THEN RaiseInTry(Raised("AuthRequired")) /\ connected' = connected
              ELSE IF IsSuccessLine(line)
                THEN /\ connected' = TRUE
                     /\ pc' = "settle"
                     /\ pipe' = <<>>
                     /\ UNCHANGED <<exc, tornDown>>
              ELSE /\ pc' = "timecheck"
                   /\ pipe' = Tail(pipe)
                   /\ UNCHANGED <<exc, tornDown, connected>>
    /\ UNCHANGED <<envVars, idx, attempted, outcomes, proc, elapsed,
                   cred_temp_path, disk, settled, webVars>>

TimedOutAtDeadline(t) == t >= CONNECT_TIMEOUT

\* line 144: time.time() - start > CONNECT_TIMEOUT
TimedOut(t) == t > CONNECT_TIMEOUT

\* lines 144-145
TimeCheck ==
    /\ pc = "timecheck"
    /\ IF TimedOut(elapsed)
         THEN RaiseInTry(Raised("Timeout"))
         ELSE /\ pc' = "sleep"
              /\ UNCHANGED <<exc, tornDown, pipe>>
    /\ UNCHANGED <<envVars, idx, attempted, outcomes, proc, elapsed, connected,
                   cred_temp_path, disk, settled, webVars>>

\* line 146: time.sleep(0.1), one poll interval
Sleep ==
    /\ pc = "sleep"
    /\ elapsed' = elapsed + 1
    /\ pc' = "poll"
    /\ UNCHANGED <<envVars, idx, attempted, outcomes, proc, pipe, connected,
                   cred_temp_path, disk, exc, settled, tornDown, webVars>>

\* ------------------------------------------------------------ environment
\* Time passes while readline (line 131) is blocked: nothing to read and
\* the process still running.
ReadlineBlocked ==
    pc = "readline" /\ pipe = <<>> /\ Running(idx)

Tick ==
    /\ ReadlineBlocked
    /\ elapsed < MaxElapsed
    /\ elapsed' = elapsed + 1
    /\ UNCHANGED <<envVars, pc, idx, attempted, outcomes, proc, pipe,
                   connected, cred_temp_path, disk, exc, settled, tornDown,
                   webVars>>

\* The current tunnel process writes a line to its stdout/stderr pipe.
ProcEmit ==
    /\ pc \in PollStates
    /\ Running(idx)
    /\ Len(pipe) < MaxLines
    /\ \E line \in Lines :
         /\ pipe' = Append(pipe, line)
         /\ proc' = [proc EXCEPT ![idx].sig = @ \/ EmitsSignature(line)]
    /\ UNCHANGED <<envVars, pc, idx, attempted, outcomes, elapsed, connected,
                   cred_temp_path, disk, exc, settled, tornDown, webVars>>

\* A tunnel process exits by itself, at any time: the one start_openvpn is
\* holding, or one that an earlier teardown left running.
ProcExit ==
    /\ \E i \in Configs, code \in ExitCodes :
         /\ Running(i)
         /\ i # idx => code = 0
         /\ proc' = [proc EXCEPT ![i] =
                       IF i = idx THEN [@ EXCEPT !.st = "exited", !.code = code]
                                  ELSE Forgotten([@ EXCEPT !.st = "exited"])]
    /\ UNCHANGED <<envVars, pc, idx, attempted, outcomes, pipe, elapsed,
                   connected, cred_temp_path, disk, exc, settled, tornDown,
                   webVars>>

\* -------------------------------------------------- main: the with body
\* line 254: time.sleep(2) after start_openvpn has yielded
Settle ==
    /\ pc = "settle"
    /\ settled' = TRUE
    /\ pc' = "launch"
    /\ UNCHANGED <<envVars, idx, attempted, outcomes, proc, pipe, elapsed,
                   connected, cred_temp_path, disk, exc, tornDown, webVars>>

\* ------------------------------------------------- perform_web_action
BrowserOutcomes == {"ok", "PWTimeout", "Error"}

\* lines 170-173: sync_playwright(), chromium.launch, new_context, new_page
WebLaunch ==
    /\ pc = "launch"
    /\ \E out \in {"ok", "Error"} :
         /\ lastCall' = [step |-> "launch", out |-> out]
         /\ IF out = "ok"
              THEN browser' = "open" /\ pc' = "goto" /\ webExc' = webExc
              ELSE browser' = browser /\ pc' = "pw_exit" /\ webExc' = out
    /\ UNCHANGED <<envVars, idx, attempted, outcomes, proc, pipe, elapsed,
                   connected, cred_temp_path, disk, exc, settled, tornDown,
                   actionResult>>

\* line 175: page.goto is outside the try of line 176
WebGoto ==
    /\ pc = "goto"
    /\ \E out \in BrowserOutcomes :
         /\ lastCall' = [step |-> "goto", out |-> out]
         /\ IF out = "ok"
              THEN pc' = "consent_wait" /\ webExc' = webExc
              ELSE pc' = "pw_exit" /\ webExc' = out
    /\ UNCHANGED <<envVars, idx, attempted, outcomes, proc, pipe, elapsed,
                   connected, cred_temp_path, disk, exc, settled, tornDown,
                   browser, actionResult>>

ConsentMissFatal(out) ==
    pc' = "web_finally" /\ webExc' = out

\* A PWTimeout of the consent step is caught by the except of line 185;
\* any other exception leaves through the finally of line 219.
ConsentMiss(out) ==
    IF out = "PWTimeout"
      THEN pc' = "section_wait" /\ webExc' = webExc
      ELSE pc' = "web_finally" /\ webExc' = out

\* line 181: page.wait_for_selector(cookie_button)
ConsentWait ==
    /\ pc = "consent_wait"
    /\ \E out \in BrowserOutcomes :
         /\ lastCall' = [step |-> "consent_wait", out |-> out]
         /\ IF out = "ok"
              THEN pc' = "consent_click" /\ webExc' = webExc
              ELSE ConsentMiss(out)
    /\ UNCHANGED <<envVars, idx, attempted, outcomes, proc, pipe, elapsed,
                   connected, cred_temp_path, disk, exc, settled, tornDown,
                   browser, actionResult>>

\* lines 182-184: page.click(cookie_button); time.sleep(COOKIES_DELAY)
ConsentClick ==
    /\ pc = "consent_click"
    /\ \E out \in BrowserOutcomes :
         /\ lastCall' = [step |-> "consent_click", out |-> out]
         /\ IF out = "ok"
              THEN pc' = "section_wait" /\ webExc' = webExc
              ELSE ConsentMiss(out)
    /\ UNCHANGED <<envVars, idx, attempted, outcomes, proc, pipe, elapsed,
                   connected, cred_temp_path, disk, exc, settled, tornDown,
                   browser, actionResult>>

\* A browser call inside the try of line 176: a PWTimeout is logged and
\* re-raised (lines 216-218), any exception passes the finally of line 219.
WebStep(here, next) ==
    /\ pc = here
    /\ \E out \in BrowserOutcomes :
         /\ lastCall' = [step |-> here, out |-> out]
         /\ IF out = "ok"
              THEN pc' = next /\ webExc' = webExc
              ELSE pc' = "web_finally" /\ webExc' = out
    /\ UNCHANGED <<envVars, idx, attempted, outcomes, proc, pipe, elapsed,
                   connected, cred_temp_path, disk, exc, settled, tornDown,
                   browser, actionResult>>

\* lines 189-192
SectionWait == WebStep("section_wait", "elements_wait")
\* lines 195-200
ElementsWait == WebStep("elements_wait", "votes_before")
\* lines 203-204
VotesBefore == WebStep("votes_before", "click")
\* lines 207-208
Click == WebStep("click", "votes_after")
\* lines 211-215
VotesAfter == WebStep("votes_after", "web_finally")

\* lines 219-221: context.close(); browser.close()
WebFinally ==
    /\ pc = "web_finally"
    /\ browser' = "closed"
    /\ pc' = "pw_exit"
    /\ UNCHANGED <<envVars, idx, attempted, outcomes, proc, pipe, elapsed,
                   connected, cred_temp_path, disk, exc, settled, tornDown,
                   webExc, lastCall, actionResult>>

\* The with body of main ends (normally, the exception of the web action
\* having been caught): start_openvpn resumes after its yield, in the finally.
BodyEnds ==
    /\ pc' = "terminate"
    /\ tornDown' = TRUE

PwExitNoStop ==
    /\ pc = "pw_exit"
    /\ browser' = browser
    /\ IF webExc = "none"
         THEN /\ actionResult' = "ok"
              /\ BodyEnds
         ELSE /\ pc' = "web_caught"
              /\ UNCHANGED <<actionResult, tornDown>>
    /\ UNCHANGED <<envVars, idx, attempted, outcomes, proc, pipe, elapsed,
                   connected, cred_temp_path, disk, exc, settled, webExc,
                   lastCall>>

\* line 170: the with sync_playwright() block is left, which stops the
\* driver; then perform_web_action returns or raises to line 257
PwExit ==
    /\ pc = "pw_exit"
    /\ browser' = IF browser = "open" THEN "stopped" ELSE browser
    /\ IF webExc = "none"
         THEN /\ actionResult' = "ok"
              /\ BodyEnds
         ELSE /\ pc' = "web_caught"
              /\ UNCHANGED <<actionResult, tornDown>>
    /\ UNCHANGED <<envVars, idx, attempted, outcomes, proc, pipe, elapsed,
                   connected, cred_temp_path, disk, exc, settled, webExc,
                   lastCall>>

WebCaughtEscapes ==
    /\ pc = "web_caught"
    /\ actionResult' = "failed"
    /\ pc' = "done"
    /\ UNCHANGED <<envVars, idx, attempted, outcomes, proc, pipe, elapsed,
                   connected, cred_temp_path, disk, exc, settled, tornDown,
                   browser, webExc, lastCall>>

\* lines 257-258: except Exception: logging.exception(...)
WebCaught ==
    /\ pc = "web_caught"
    /\ actionResult' = "failed"
    /\ webExc' = "none"
    /\ BodyEnds
    /\ UNCHANGED <<envVars, idx, attempted, outcomes, proc, pipe, elapsed,
                   connected, cred_temp_path, disk, exc, settled, browser,
                   lastCall>>

\* ------------------------------------------- start_openvpn: the finally
TerminateUnguarded ==
    /\ pc = "terminate"
    /\ IF ~Running(idx)
         THEN pc' = "wait" /\ exc' = exc
         ELSE \E r \in {"sent", "raises"} :
                IF r = "sent"
                  THEN pc' = "wait" /\ exc' = exc
                  ELSE pc' = "handler" /\ exc' = Raised("TeardownError")
    /\ UNCHANGED <<envVars, idx, attempted, outcomes, proc, pipe, elapsed,
                   connected, cred_temp_path, disk, settled, tornDown,
                   webVars>>

\* lines 149-151: proc.terminate() sends SIGTERM unless the process has been
\* reaped; os.kill can raise (the process runs under sudo), which takes
\* control to the except of line 156
Terminate ==
    /\ pc = "terminate"
    /\ IF ~Running(idx)
         THEN pc' = "wait"
         ELSE \E r \in {"sent", "raises"} :
                pc' = IF r = "sent" THEN "wait" ELSE "td_except"
    /\ UNCHANGED <<envVars, idx, attempted, outcomes, proc, pipe, elapsed,
                   connected, cred_temp_path, disk, exc, settled, tornDown,
                   webVars>>

\* lines 152-154: proc.wait(timeout=5): the process ends on the SIGTERM
\* within the grace period, or TimeoutExpired is raised
Wait ==
    /\ pc = "wait"
    /\ IF ~Running(idx)
         THEN pc' = "rmcred" /\ proc' = proc
         ELSE \E r \in {"exits", "expires"} :
                IF r = "exits"
                  THEN /\ proc' = [proc EXCEPT ![idx].st = "exited",
                                               ![idx].code = -15]
                       /\ pc' = "rmcred"
                  ELSE pc' = "kill" /\ proc' = proc
    /\ UNCHANGED <<envVars, idx, attempted, outcomes, pipe, elapsed, connected,
                   cred_temp_path, disk, exc, settled, tornDown, webVars>>

\* line 155: proc.kill() sends SIGKILL, or raises like terminate; it is not
\* followed by a wait
Kill ==
    /\ pc = "kill"
    /\ IF ~Running(idx)
         THEN proc' = proc /\ pc' = "rmcred"
         ELSE \E r \in {"killed", "raises"} :
                IF r = "killed"
                  THEN /\ proc' = [proc EXCEPT ![idx].st = "exited",
                                               ![idx].code = -9]
                       /\ pc' = "rmcred"
                  ELSE proc' = proc /\ pc' = "td_except"
    /\ UNCHANGED <<envVars, idx, attempted, outcomes, pipe, elapsed, connected,
                   cred_temp_path, disk, exc, settled, tornDown, webVars>>

\* lines 156-157: except Exception: the failure of terminate or kill is
\* logged, the process is left as it is
TeardownExcept ==
    /\ pc = "td_except"
    /\ pc' = "rmcred"
    /\ UNCHANGED <<envVars, idx, attempted, outcomes, proc, pipe, elapsed,
                   connected, cred_temp_path, disk, exc, settled, tornDown,
                   webVars>>

\* The generator ends: the exception that entered the finally, if any, goes
\* on to main, else the with statement and the iteration are over.
LeaveFinally ==
    IF exc = NoExc
      THEN EndIteration
      ELSE pc' = "handler" /\ UNCHANGED <<idx, outcomes, proc>>

RmCredAnyAuthFile ==
    /\ pc = "rmcred"
    /\ IF cred_temp_path # 0 /\ cred_temp_path \in disk
         THEN disk' = disk \ {cred_temp_path}
                /\ OPENVPN_AUTH_FILE' = OPENVPN_AUTH_FILE
         ELSE disk' = disk
                /\ OPENVPN_AUTH_FILE' =
                     IF OPENVPN_AUTH_FILE = "present" THEN "missing"
                                                      ELSE OPENVPN_AUTH_FILE
    /\ LeaveFinally
    /\ UNCHANGED <<OPENVPN_USER, OPENVPN_PASS, binFound, attempted, pipe,
                   elapsed, connected, cred_temp_path, exc, settled, tornDown,
                   webVars>>

\* lines 158-162: the temporary credential file is removed if this call
\* made one and it exists; os.remove can raise, which takes control to the
\* except of line 163
RmCred ==
    /\ pc = "rmcred"
    /\ IF cred_temp_path # 0 /\ cred_temp_path \in disk
         THEN \E removed \in BOOLEAN :
                IF removed
                  THEN disk' = disk \ {cred_temp_path} /\ LeaveFinally
                  ELSE /\ disk' = disk /\ pc' = "rm_except"
                       /\ UNCHANGED <<idx, outcomes, proc>>
         ELSE disk' = disk /\ LeaveFinally
    /\ UNCHANGED <<envVars, attempted, pipe, elapsed, connected,
                   cred_temp_path, exc, settled, tornDown, webVars>>

\* lines 163-164: except Exception: the failure of os.remove is logged
RmExcept ==
    /\ pc = "rm_except"
    /\ LeaveFinally
    /\ UNCHANGED <<envVars, attempted, pipe, elapsed, connected,
                   cred_temp_path, disk, exc, settled, tornDown, webVars>>

\* ---------------------------------------------------------- specification
\* the steps of the program
MainStep ==
    \/ LoopNext \/ LoopDone \/ Handler
    \/ CheckCreds \/ CheckBin \/ PrepCreds \/ Spawn
    \/ Poll \/ Readline \/ TimeCheck \/ Sleep
    \/ Settle
    \/ WebLaunch \/ WebGoto \/ ConsentWait \/ ConsentClick
    \/ SectionWait \/ ElementsWait \/ VotesBefore \/ Click \/ VotesAfter
    \/ WebFinally \/ PwExit \/ WebCaught
    \/ Terminate \/ Wait \/ Kill \/ TeardownExcept \/ RmCred \/ RmExcept

\* the steps of the environment
EnvStep == Tick \/ ProcEmit \/ ProcExit

Next == MainStep \/ EnvStep

Spec == Init /\ [][Next]_vars

\* The program is one thread that the scheduler keeps running: whenever a
\* step of it is possible, one is taken.  Nothing is assumed of the tunnel
\* processes.
FairSpec == Spec /\ WF_vars(MainStep)

\* ------------------------------------------------------------- properties
InOrder(s) == \A k \in 1..Len(s) : s[k] = k
NoSpawnYet == \A i \in Configs : proc[i].st = "none"

\* C1: at most one tunnel is up at any time, and no configuration's process
\* has been spawned while the process of an earlier configuration is still
\* running.
OneTunnelAtATime ==
    /\ Cardinality({i \in Configs : TunnelUp(i)}) <= 1
    /\ \A i, j \in Configs :
         (i < j /\ proc[j].st # "none") => ~Running(i)

\* C2: the iterations started are the configurations in list order, each
\* once, each ended before the next starts; when main is done every
\* configuration has been attempted and has its outcome.
OneAttemptPerConfig ==
    /\ InOrder(attempted) /\ InOrder(outcomes)
    /\ Len(attempted) <= NumConfigs
    /\ Len(outcomes) <= Len(attempted) /\ Len(attempted) <= Len(outcomes) + 1
    /\ pc = "loop" => Len(outcomes) = Len(attempted)
    /\ pc = "done" => Len(attempted) = NumConfigs /\ Len(outcomes) = NumConfigs

\* C2 witness: main is done, and the last attempt ended in a connect timeout.
AllAttemptedWitness ==
    pc = "done" /\ Len(outcomes) = NumConfigs /\ exc.type = "Timeout"

\* C3: the connect-timeout error is raised only after CONNECT_TIMEOUT, and
\* while the process is running and has emitted no success signature the
\* polling loop is never still waiting later than one poll interval after
\* the deadline.
TimeoutWithinOnePoll ==
    /\ exc.type = "Timeout" => elapsed > CONNECT_TIMEOUT
    /\ (pc \in PollStates /\ Running(idx) /\ ~proc[idx].sig)
         => elapsed <= CONNECT_TIMEOUT + 1

\* C4: a transient credential file exists only while the call that created
\* it is still in its scope.
CredFileGoneAfterScope ==
    \A f \in disk : f = idx /\ pc \notin {"handler", "loop", "done"}

\* C5: when the polling loop ends and the process has exited by itself with
\* a non-zero code without ever emitting a success signature, the loop ends
\* in the process-exited error carrying that code, on the way to teardown
\* (not in the timeout error, not connected, the body not run).
ExitReportedAsExit ==
    [][(/\ pc \in PollStates /\ pc' \notin PollStates
        /\ proc[idx].st = "exited" /\ proc[idx].code # 0 /\ ~proc[idx].sig)
       => (/\ exc' = [type |-> "ProcessExited", code |-> proc[idx].code]
           /\ pc' = "terminate" /\ ~connected')]_vars

\* C6: with no credential source configured, or with an auth file configured
\* that does not exist, start_openvpn never gets to spawn a process, fails
\* with a configuration error and leaves no credential file.
NoSpawnWithoutCreds ==
    (\/ OPENVPN_AUTH_FILE = "missing"
     \/ (OPENVPN_AUTH_FILE = "unset" /\ ~(OPENVPN_USER /\ OPENVPN_PASS)))
    => /\ NoSpawnYet
       /\ disk = {} /\ cred_temp_path = 0
       /\ pc \in {"loop", "check_creds", "check_bin", "prep_creds", "handler",
                  "done"}
       /\ pc = "handler" =>
            exc.type \in {"NoCredentials", "BinaryNotFound", "AuthFileMissing"}

\* C6 witness: the auth file is configured and missing (user and secret are
\* set as well), and the call has failed on it.
MissingAuthFileWitness ==
    /\ pc = "handler" /\ exc.type = "AuthFileMissing"
    /\ OPENVPN_USER /\ OPENVPN_PASS /\ NoSpawnYet /\ disk = {}

\* C7: a failure of the web action stays inside perform_web_action until
\* main's inner except takes it; from there the body ends normally into the
\* teardown of the same configuration with no exception pending, the
\* iteration ends with the loop going on to the next configuration, and
\* main ends only with every configuration attempted.
ActionFailureIsolated ==
    /\ [][(pc \in WebStates /\ webExc' # "none")
            => (/\ pc' \in {"web_finally", "pw_exit", "web_caught"}
                /\ idx' = idx /\ exc' = NoExc)]_vars
    /\ [][(pc = "web_caught" /\ pc' # pc)
            => (/\ pc' = "terminate" /\ tornDown' /\ idx' = idx
                /\ exc' = NoExc /\ actionResult' = "failed")]_vars
    /\ [][(/\ pc \in TeardownStates /\ pc' \notin TeardownStates
           /\ actionResult = "failed")
            => (pc' = "loop" /\ idx' = idx + 1)]_vars
    /\ [](pc = "done" => Len(attempted) = NumConfigs)

\* C7 witness: the web action of the first configuration failed and main is
\* about to take the second.
ActionFailedWitness ==
    pc = "loop" /\ idx = 2 /\ actionResult = "failed"

\* C8: main eventually logs the completion line.
EventuallyDone == <>(pc = "done")

\* C9: when the wait for the consent button times out, the next step is the
\* search for the target section with no exception pending, and an exception
\* that is pending in perform_web_action is never that timeout.
ConsentTimeoutNonFatal ==
    /\ [][(/\ pc = "consent_wait"
           /\ lastCall' = [step |-> "consent_wait", out |-> "PWTimeout"])
          => (pc' = "section_wait" /\ webExc' = "none"
                /\ actionResult' = "none")]_vars
    /\ [](webExc # "none"
            => lastCall # [step |-> "consent_wait", out |-> "PWTimeout"])

\* C9 witness: the consent wait has timed out and the section search is next.
ConsentTimeoutWitness ==
    /\ pc = "section_wait"
    /\ lastCall = [step |-> "consent_wait", out |-> "PWTimeout"]

\* C10 as claimed: perform_web_action is invoked only with the signature
\* read, the settle delay over, no teardown begun, no acquisition failure,
\* and the tunnel still up.
WebActionOnlyWhileTunnelUp ==
    pc = "launch"
      => /\ connected /\ settled /\ ~tornDown /\ exc = NoExc
         /\ TunnelUp(idx)

\* C10 as amended: perform_web_action runs only after a success signature
\* of this configuration's process has been read and the settle delay is
\* over, before teardown has begun and with no acquisition failure; the
\* process itself may have exited in the meantime.
WebActionOnlyAfterConnect ==
    pc \in WebStates \cup {"web_caught"}
      => /\ connected /\ settled /\ ~tornDown /\ exc = NoExc
         /\ proc[idx].st # "none" /\ proc[idx].sig

\* C10 witness: perform_web_action is being invoked although the tunnel
\* process has exited after connecting.
WebActionAfterExitWitness ==
    pc = "launch" /\ connected /\ settled /\ proc[idx].st = "exited"

\* C11: the finally starts with the request to terminate; the force-kill is
\* issued only from the wait, with the process still running; the credential
\* file is deleted only after the steps that end the process; and when the
\* teardown is over the process has terminated.
TeardownInOrder ==
    /\ [][(pc \notin TeardownStates /\ pc' \in TeardownStates)
            => pc' = "terminate"]_vars
    /\ [][(pc = "terminate" /\ pc' # pc) => pc' \in {"wait", "td_except"}]_vars
    /\ [][(pc # "kill" /\ pc' = "kill") => (pc = "wait" /\ Running(idx))]_vars
    /\ [][(pc # "rmcred" /\ pc' = "rmcred")
            => pc \in {"wait", "kill", "td_except"}]_vars
    /\ [][disk' # disk => (pc = "rmcred" \/ pc = "prep_creds")]_vars
    /\ [][(pc \in TeardownStates /\ pc' \notin TeardownStates)
            => ~Running(idx)]_vars

\* C12: nothing that fails in the teardown changes the pending exception or
\* leaves the finally early: after the except of line 156 the credential
\* file is still dealt with, and the finally is left only from there, to
\* main's handler with the exception that entered it, or, with none, to the
\* next iteration.
TeardownFailureSwallowed ==
    /\ [][(pc \in TeardownStates) => (exc' = exc)]_vars
    /\ [][(pc = "td_except" /\ pc' # pc) => pc' = "rmcred"]_vars
    /\ [][(pc \in TeardownStates /\ pc' \notin TeardownStates)
            => /\ pc \in {"rmcred", "rm_except"}
               /\ IF exc = NoExc THEN pc' = "loop" /\ idx' = idx + 1
                                 ELSE pc' = "handler" /\ idx' = idx]_vars
    /\ [](pc = "handler" => exc.type # "TeardownError")

\* C12 witness: os.remove has failed in a teardown that a connect timeout
\* started, and the process is still running (terminate or kill failed too).
TeardownFailedWitness ==
    pc = "rm_except" /\ exc.type = "Timeout" /\ Running(idx)

\* C13: outside perform_web_action no browser is open.
BrowserReleased ==
    pc \notin WebStates => browser # "open"

\* C13 witness: the navigation has timed out and perform_web_action has
\* been left with the browser stopped.
GotoFailedWitness ==
    /\ pc = "web_caught" /\ browser = "stopped"
    /\ lastCall = [step |-> "goto", out |-> "PWTimeout"]

\* C14: when the binary is neither at its path nor on the search path, the
\* call fails at once with no process spawned and no credential file made,
\* and main's handler goes on to the next configuration.
MissingBinaryAbortsOneConfig ==
    /\ [](binFound = "nowhere"
            => /\ pc \in {"handler", "loop", "done"}
               /\ exc.type = "BinaryNotFound"
               /\ proc[attempted[Len(attempted)]].st = "none"
               /\ cred_temp_path = 0
               /\ attempted[Len(attempted)] \notin disk)
    /\ [][(pc = "handler" /\ pc' # pc) => (pc' = "loop" /\ idx' = idx + 1)]_vars
    /\ [](pc = "done" => Len(attempted) = NumConfigs)

\* C14 witness: the binary was not found for the first configuration and
\* main is about to take the second.
MissingBinaryWitness ==
    binFound = "nowhere" /\ pc = "loop" /\ idx = 2

\* C15: in the polling loop a credential file is always part of the
\* command, the interactive-auth error is never raised, and a line with a
\* username prompt sends the loop on to the deadline check like any line
\* without a signature.
AuthRequiredNeverRaised ==
    /\ [](pc \in PollStates
            => (OPENVPN_AUTH_FILE = "present" \/ cred_temp_path # 0))
    /\ [](exc.type # "AuthRequired")
    /\ [][(/\ pc = "readline" /\ pc' # pc /\ pipe # <<>>
           /\ Head(pipe) \in {PromptLine, AuthLine, MiscLine})
          => (pc' = "timecheck" /\ exc' = exc /\ ~connected')]_vars

\* C15 witness: the loop is about to read a username prompt.
PromptLineWitness ==
    pc = "readline" /\ pipe # <<>> /\ Head(pipe) = PromptLine

\* C16: the loop reads a line only after proc.poll() has found the process
\* running in that iteration, connected is set only by reading a signature
\* line, and a process that proc.poll() finds exited is reported as failed
\* whatever is unread in its output.
ExitObservedMeansFailed ==
    /\ [][(pc # "readline" /\ pc' = "readline")
            => (pc = "poll" /\ Running(idx))]_vars
    /\ [][(~connected /\ connected')
            => (/\ pc = "readline" /\ pipe # <<>>
                /\ EmitsSignature(Head(pipe)) /\ pc' = "settle")]_vars
    /\ [][(pc = "poll" /\ pc' # pc /\ proc[idx].st = "exited")
            => (/\ exc' = [type |-> "ProcessExited", code |-> proc[idx].code]
                /\ pc' = "terminate" /\ ~connected')]_vars

\* C16 witness: the process wrote a success signature and exited; the loop
\* found it exited and failed.
UnreadSignatureWitness ==
    /\ pc = "terminate" /\ exc.type = "ProcessExited"
    /\ proc[idx].sig /\ ~connected

\* C17: with an existing auth file configured no transient file is ever
\* made, the auth file stays as it is, and a file that goes from the disk
\* is the one this call made, removed in its own teardown.
AuthFileUntouched ==
    /\ [](OPENVPN_AUTH_FILE = "present" => (disk = {} /\ cred_temp_path = 0))
    /\ [][(OPENVPN_AUTH_FILE' = OPENVPN_AUTH_FILE)]_vars
    /\ [][(disk' # disk /\ disk' \subseteq disk)
            => (/\ pc = "rmcred" /\ cred_temp_path = idx
                /\ disk' = disk \ {idx})]_vars

\* C17 witness: auth file, user and secret are all set, and a session that
\* connected has been torn down.
AuthFileKeptWitness ==
    /\ OPENVPN_AUTH_FILE = "present" /\ OPENVPN_USER /\ OPENVPN_PASS
    /\ pc = "loop" /\ idx = 2 /\ proc[1].st # "none" /\ actionResult = "ok"

====
